---- MODULE Spec2Model ----
(***************************************************************************)
(* Permission calculation of tanjun/utilities.py: the pure calculator      *)
(* (calculate_permissions and its two resolvers), the ALL_PERMISSIONS      *)
(* constant, and the cache-first / REST-fallback query fetch_permissions   *)
(* with its retry driver fetch_resource.                                   *)
(*                                                                         *)
(* A permission value (hikari.Permissions, an integer flag) is modelled as *)
(* the set of its bit positions: a | b is union, a & ~b is set difference, *)
(* a ^ b is symmetric difference, a & b truthy is a non-empty intersection.*)
(***************************************************************************)
EXTENDS Integers, FiniteSets, Sequences, TLC

VARIABLES
    member,         \* the member argument (user.id, guild_id, role_ids)
    guild,          \* calculate_permissions: guild argument; fetch_permissions: local guild
    roles,          \* calculate_permissions: roles argument; fetch_permissions: local roles
    channel,        \* the channel argument of the function under call
    permissions,    \* _calculate_channel_overwrites: permissions argument; fetch_permissions: local
    found_channel,  \* fetch_permissions: local found_channel
    cache,          \* client.cache: present or None
    retry,          \* fetch_permissions: the backoff.Backoff object
    driver,         \* fetch_resource: where the pending REST request stands
    pc,             \* position of the call in progress
    result,         \* outcome of the finished call: a returned value or a raised error
    events,         \* cache lookups and REST calls made by the query so far
    cached,         \* what each cache lookup of the query gave back
    calls,          \* fetch_resource: invocations of `call` in the current run
    last,           \* fetch_resource: outcome of the latest finished invocation
    prior,          \* fetch_resource: what the backoff held when the run under way reset it
    outstanding,    \* per REST call, the requests sent and not yet answered
    peer            \* a second fetch_permissions coroutine of the event loop: its frame

vars == <<member, guild, roles, channel, permissions, found_channel, cache, retry,
          driver, pc, result, events, cached, calls, last, prior,
          outstanding, peer>>

---------------------------------------------------------------------------
(* Bounds of the model *)

\* number of single-bit flags besides NONE in the modelled hikari.Permissions
NumFlags == 2

---------------------------------------------------------------------------
(* Values *)

None == [type |-> "None"]

\* Snowflake ids: G1 is member.guild_id and so the id of its everyone-role,
\* G2 another guild, R1 a role, U1 the member's user, U2 another user.
Snowflakes == {"G1", "G2", "R1", "U1", "U2"}

\* hikari.Permissions: NONE and NumFlags disjoint single-bit flags, in
\* declaration order; ADMINISTRATOR is one of them.
Bits == 1..NumFlags
NONE == {}
ADMINISTRATOR == {1}
Permissions == <<NONE>> \o [i \in 1..NumFlags |-> {i}]
PermissionSets == SUBSET Bits

Return(of, value) == [of |-> of, type |-> "return", value |-> value]
Raise(of, error) == [of |-> of, type |-> "raise", error |-> error]

\* a ^ b on flag values
Xor(a, b) == (a \ b) \cup (b \ a)

RECURSIVE Reduce(_, _, _)
\* functools.reduce(operator.__xor__, seq) continued from accumulator acc at index i
Reduce(seq, i, acc) ==
    IF i > Len(seq) THEN acc ELSE Reduce(seq, i + 1, Xor(acc, seq[i]))

\* variant: the fold is seeded with a flag that the iteration yields again
ALL_PERMISSIONS_SeededWithFlag == Reduce(Permissions, 1, ADMINISTRATOR)

ALL_PERMISSIONS == Reduce(Permissions, 2, Permissions[1])

---------------------------------------------------------------------------
(* The pure resolvers *)

RECURSIVE OverwriteLoop(_, _, _)
\* the for loop of _calculate_channel_overwrites over member.role_ids:
\* acc = <<deny, allow>>, ids = the role ids still to visit
OverwriteLoop(overwrites, ids, acc) ==
    IF ids = {} THEN acc
    ELSE LET id == CHOOSE r \in ids : TRUE
             overwrite == overwrites[id]
         IN  OverwriteLoop(overwrites, ids \ {id},
                 IF overwrite = None THEN acc
                 ELSE <<acc[1] \cup overwrite.deny, acc[2] \cup overwrite.allow>>)

\* variants of _calculate_channel_overwrites with one layer misplaced:
\* "role_allow_first" adds the role allow before removing the role deny,
\* "member_first" applies the member layer before the role layer
ChannelOverwritesVariant(chan, mem, perms, variant) ==
    LET overwrites == chan.permission_overwrites
        everyone_overwrite == overwrites[mem.guild_id]
        member_overwrite == overwrites[mem.user_id]
        acc == OverwriteLoop(overwrites, mem.role_ids, <<NONE, NONE>>)
        Layer(p, o) == IF o # None THEN (p \ o.deny) \cup o.allow ELSE p
        p1 == Layer(perms, everyone_overwrite)
    IN  IF variant = "role_allow_first"
        THEN Layer((p1 \cup acc[2]) \ acc[1], member_overwrite)
        ELSE (Layer(p1, member_overwrite) \ acc[1]) \cup acc[2]

_calculate_channel_overwrites_RoleAllowFirst(chan, mem, perms) ==
    ChannelOverwritesVariant(chan, mem, perms, "role_allow_first")

_calculate_channel_overwrites_MemberFirst(chan, mem, perms) ==
    ChannelOverwritesVariant(chan, mem, perms, "member_first")

_calculate_channel_overwrites(chan, mem, perms) ==
    LET overwrites == chan.permission_overwrites
        everyone_overwrite == overwrites[mem.guild_id]
        p1 == IF everyone_overwrite # None
              THEN (perms \ everyone_overwrite.deny) \cup everyone_overwrite.allow
              ELSE perms
        acc == OverwriteLoop(overwrites, mem.role_ids, <<NONE, NONE>>)
        p2 == (p1 \ acc[1]) \cup acc[2]
        member_overwrite == overwrites[mem.user_id]
    IN  IF member_overwrite # None
        THEN (p2 \ member_overwrite.deny) \cup member_overwrite.allow
        ELSE p2

RECURSIVE RoleLoop(_, _, _, _)
\* the for loop of _calculate_role_permissions over member.role_ids
RoleLoop(rs, mem, ids, perms) ==
    IF ids = {} THEN perms
    ELSE LET id == CHOOSE r \in ids : TRUE
             role == rs[id]
         IN  RoleLoop(rs, mem, ids \ {id},
                 IF role # None /\ role.id # mem.guild_id
                 THEN perms \cup role.permissions
                 ELSE perms)

\* variant: the fold starts from NONE instead of the everyone-role's permissions
_calculate_role_permissions_FromNone(rs, mem) ==
    IF rs[mem.guild_id] = None
    THEN Raise("_calculate_role_permissions", "KeyError")
    ELSE Return("_calculate_role_permissions", RoleLoop(rs, mem, mem.role_ids, NONE))

\* variant: a missing everyone-role counts as NONE (roles.get with a default)
_calculate_role_permissions_MissingEveryoneIsNone(rs, mem) ==
    Return("_calculate_role_permissions",
           RoleLoop(rs, mem, mem.role_ids,
                    IF rs[mem.guild_id] = None THEN NONE ELSE rs[mem.guild_id].permissions))

\* roles[member.guild_id] raises KeyError when the mapping has no such entry
_calculate_role_permissions(rs, mem) ==
    IF rs[mem.guild_id] = None
    THEN Raise("_calculate_role_permissions", "KeyError")
    ELSE Return("_calculate_role_permissions",
                RoleLoop(rs, mem, mem.role_ids, rs[mem.guild_id].permissions))

\* variants of calculate_permissions with one check misplaced:
\* "owner_after_roles" resolves the roles before the owner short-circuit,
\* "admin_after_overwrites" tests the administrator flag on the overwritten value,
\* "guild_after_owner" validates member.guild_id after the owner short-circuit
CalculatePermissionsVariant(mem, gld, rs, chan, variant) ==
    LET of == "calculate_permissions"
        role_permissions == _calculate_role_permissions(rs, mem)
        overwritten == IF chan = None THEN role_permissions.value
                       ELSE _calculate_channel_overwrites(chan, mem, role_permissions.value)
    IN  CASE variant = "owner_after_roles" ->
                IF mem.guild_id # gld.id THEN Raise(of, "ValueError")
                ELSE IF role_permissions.type = "raise" THEN Raise(of, role_permissions.error)
                ELSE IF gld.owner_id = mem.user_id THEN Return(of, ALL_PERMISSIONS)
                ELSE IF role_permissions.value \cap ADMINISTRATOR # {}
                     THEN Return(of, ALL_PERMISSIONS)
                ELSE Return(of, overwritten)
          [] variant = "admin_after_overwrites" ->
                IF mem.guild_id # gld.id THEN Raise(of, "ValueError")
                ELSE IF gld.owner_id = mem.user_id THEN Return(of, ALL_PERMISSIONS)
                ELSE IF role_permissions.type = "raise" THEN Raise(of, role_permissions.error)
                ELSE IF overwritten \cap ADMINISTRATOR # {} THEN Return(of, ALL_PERMISSIONS)
                ELSE Return(of, overwritten)
          [] OTHER ->
                IF gld.owner_id = mem.user_id THEN Return(of, ALL_PERMISSIONS)
                ELSE IF mem.guild_id # gld.id THEN Raise(of, "ValueError")
                ELSE IF role_permissions.type = "raise" THEN Raise(of, role_permissions.error)
                ELSE IF role_permissions.value \cap ADMINISTRATOR # {}
                     THEN Return(of, ALL_PERMISSIONS)
                ELSE Return(of, overwritten)

calculate_permissions_OwnerAfterRoles(mem, gld, rs, chan) ==
    CalculatePermissionsVariant(mem, gld, rs, chan, "owner_after_roles")

calculate_permissions_AdminAfterOverwrites(mem, gld, rs, chan) ==
    CalculatePermissionsVariant(mem, gld, rs, chan, "admin_after_overwrites")

calculate_permissions_GuildAfterOwner(mem, gld, rs, chan) ==
    CalculatePermissionsVariant(mem, gld, rs, chan, "guild_after_owner")

calculate_permissions(mem, gld, rs, chan) ==
    LET of == "calculate_permissions"
        role_permissions == _calculate_role_permissions(rs, mem)
    IN  IF mem.guild_id # gld.id THEN Raise(of, "ValueError")
        ELSE IF gld.owner_id = mem.user_id THEN Return(of, ALL_PERMISSIONS)
        ELSE IF role_permissions.type = "raise" THEN Raise(of, role_permissions.error)
        ELSE IF role_permissions.value \cap ADMINISTRATOR # {}
             THEN Return(of, ALL_PERMISSIONS)
        ELSE IF chan = None THEN Return(of, role_permissions.value)
        ELSE Return(of, _calculate_channel_overwrites(chan, mem, role_permissions.value))

---------------------------------------------------------------------------
(* Input families *)

\* permission values the inputs carry: NONE, every single flag, every flag
PermissionValues == {p \in PermissionSets : Cardinality(p) <= 1 \/ p = Bits}

\* hikari.PermissionOverwrite: allow and deny may overlap
Overwrites == [type : {"PermissionOverwrite"}, allow : PermissionValues, deny : PermissionValues]

DenyAll == [type |-> "PermissionOverwrite", allow |-> NONE, deny |-> Bits]
DenyLast == [type |-> "PermissionOverwrite", allow |-> NONE, deny |-> {NumFlags}]
AllowLast == [type |-> "PermissionOverwrite", allow |-> {NumFlags}, deny |-> NONE]
SampleOverwrites == {DenyAll, DenyLast, AllowLast}

\* a mapping keyed by snowflake: .get(k) is m[k], None where k is no key
MappingOf(everyone, role, user) ==
    [k \in Snowflakes |-> CASE k = "G1" -> everyone
                            [] k = "R1" -> role
                            [] k = "U1" -> user
                            [] OTHER -> None]

Role(id, perms) == [type |-> "Role", id |-> id, permissions |-> perms]

\* role mappings: every entry is keyed by its role's id
RoleMappings ==
    {MappingOf(e, r, None) :
        e \in {None} \cup {Role("G1", p) : p \in PermissionValues},
        r \in {None} \cup {Role("R1", p) : p \in PermissionValues}}

Members == [type : {"Member"}, user_id : {"U1"}, guild_id : {"G1"}, role_ids : SUBSET {"G1", "R1"}]

Guilds == [type : {"Guild"}, id : {"G1", "G2"}, owner_id : {"U1", "U2"}]

GuildChannel(guild_id, overwrites) ==
    [type |-> "GuildChannel", guild_id |-> guild_id, permission_overwrites |-> overwrites]

\* every channel of guild G1 over the overwrite keys G1 (everyone), R1, U1
AllChannels ==
    {GuildChannel("G1", MappingOf(e, r, u)) :
        e \in {None} \cup Overwrites, r \in {None} \cup Overwrites, u \in {None} \cup Overwrites}

\* channels of either guild: every member overwrite, sampled everyone and role overwrites
SampleChannels ==
    {GuildChannel(g, MappingOf(e, r, u)) :
        g \in {"G1", "G2"},
        e \in {None} \cup SampleOverwrites,
        r \in {None} \cup SampleOverwrites,
        u \in {None} \cup Overwrites}

\* backoff.Backoff(maximum=5, max_retries=4) as constructed or reset: not
\* started, no retry consumed, no backoff set; backoff is the wait in progress
NewBackoff == [started |-> FALSE, retries |-> 0, next_backoff |-> None, backoff |-> None]

---------------------------------------------------------------------------
(* Calls of the pure functions: the inputs are drawn in Init, one action  *)
(* per function applies it                                                *)

\* no cache lookup made yet
NoLookups == [guild |-> "unasked", roles |-> "unasked", channel |-> "unasked"]

\* the REST calls of fetch_permissions
RestCalls == {"fetch_guild", "fetch_roles", "fetch_channel"}

\* no request awaits its answer
NoneOutstanding == [c \in RestCalls |-> 0]

\* no invocation of `call` made yet
NoCalls == [guarded |-> 0, final |-> 0]

InitIdle ==
    /\ found_channel = None
    /\ cache = None
    /\ retry = NewBackoff
    /\ driver = "idle"
    /\ events = {}
    /\ result = None
    /\ cached = NoLookups
    /\ calls = NoCalls
    /\ last = None
    /\ prior = None
    /\ outstanding = NoneOutstanding
    /\ peer = None

InitOverwrites ==
    /\ InitIdle
    /\ member \in Members
    /\ guild = None
    /\ roles = None
    /\ channel \in AllChannels
    /\ permissions \in PermissionValues
    /\ pc = "overwrites"

InitCalc ==
    /\ InitIdle
    /\ member \in Members
    /\ guild \in Guilds
    /\ roles \in RoleMappings
    /\ channel \in {None} \cup SampleChannels
    /\ permissions = NONE
    /\ pc = "calculate"

Finish(res) ==
    /\ pc' = "done"
    /\ result' = res
    /\ UNCHANGED <<member, guild, roles, channel, permissions, found_channel, cache,
                   retry, driver, events, cached, calls, last, prior, outstanding, peer>>

CallChannelOverwrites ==
    /\ pc = "overwrites"
    /\ Finish(Return("_calculate_channel_overwrites",
                     _calculate_channel_overwrites(channel, member, permissions)))

CallRolePermissions ==
    /\ pc = "calculate"
    /\ Finish(_calculate_role_permissions(roles, member))

CallCalculatePermissions ==
    /\ pc = "calculate"
    /\ Finish(calculate_permissions(member, guild, roles, channel))

NextOverwrites == CallChannelOverwrites

NextCalc == CallRolePermissions \/ CallCalculatePermissions

SpecOverwrites == InitOverwrites /\ [][NextOverwrites]_vars

SpecCalc == InitCalc /\ [][NextCalc]_vars

---------------------------------------------------------------------------
(* fetch_permissions: one query, resolved cache-first with REST fallback.  *)
(* The query advances between its suspension points: a pending REST        *)
(* request (driver "call" or "final") and a backoff sleep (driver "sleep").*)

\* Backoff(max_retries=4)
MaxRetries == 4

\* the bound of `exc.retry_after > 5`
MaxRetryAfter == 5

\* retry_after values a rate-limited response may carry
RetryAfters == {3, MaxRetryAfter, 10}

Seconds(s) == [type |-> "seconds", value |-> s]
\* the next value of the backoff's own exponential schedule
Exponential == [type |-> "exponential"]

Cache == [type |-> "Cache"]
Snowflake(id) == [type |-> "Snowflake", id |-> id]
DMChannel == [type |-> "DMChannel"]

\* an empty or missing mapping is falsy
IsEmpty(m) == \A k \in Snowflakes : m[k] = None
Falsy(m) == IF m = None THEN TRUE ELSE IsEmpty(m)

\* the guild objects get_guild(member.guild_id) and fetch_guild(member.guild_id) may give
GuildsOfMember == {g \in Guilds : g.id = member.guild_id}

\* guild channels the caller, the cache or REST may give
FetchChannels ==
    {GuildChannel(g, MappingOf(e, r, u)) :
        g \in {"G1", "G2"}, e \in {None, DenyLast}, r \in {None, AllowLast}, u \in {None, DenyAll}}

ChannelArguments == {None, Snowflake("C1")} \cup FetchChannels

\* the frame of a fetch_permissions call at its entry
InitQuery ==
    /\ member \in Members
    /\ channel \in ChannelArguments
    /\ cache \in {None, Cache}
    /\ guild = None
    /\ roles = None
    /\ permissions = NONE
    /\ found_channel = None
    /\ retry = NewBackoff
    /\ driver = "idle"
    /\ pc = "start"
    /\ result = None
    /\ events = {}
    /\ cached = NoLookups
    /\ calls = NoCalls
    /\ last = None
    /\ prior = None
    /\ outstanding = NoneOutstanding

\* one query alone on the event loop
InitFetch ==
    /\ InitQuery
    /\ peer = None

\* the outcomes of one invocation of `call`: a returned payload or a raised error
Ok(payload) == [type |-> "ok", payload |-> payload]
RateLimited(retry_after) == [type |-> "RateLimitedError", retry_after |-> retry_after]
Failed(error) == [type |-> error]

\* `await call(*args)`: a request is sent, and later answered by a result or an error
Sent(call) == [outstanding EXCEPT ![call] = @ + 1]
Answered(call) == [outstanding EXCEPT ![call] = @ - 1]

\* fetch_permissions returns or raises
End(res) ==
    /\ pc' = "done"
    /\ result' = res
    /\ driver' = "idle"

\* variant: fetch_resource starts on the backoff as the earlier fetch left it
BeginFetch_NoReset(call, lookups) ==
    /\ retry' = [retry EXCEPT !.started = TRUE]
    /\ driver' = "call"
    /\ pc' = call
    /\ events' = events \cup lookups \cup {call}
    /\ calls' = [guarded |-> 1, final |-> 0]
    /\ prior' = retry
    /\ outstanding' = Sent(call)
    /\ UNCHANGED result

\* fetch_resource up to its first await: retry.reset(), the first iteration
\* of `async for _ in retry` (no backoff), and the request is sent
BeginFetch(call, lookups) ==
    /\ retry' = [NewBackoff EXCEPT !.started = TRUE]
    /\ driver' = "call"
    /\ pc' = call
    /\ events' = events \cup lookups \cup {call}
    /\ calls' = [guarded |-> 1, final |-> 0]
    /\ prior' = retry
    /\ outstanding' = Sent(call)
    /\ UNCHANGED result

\* variant: the guild is fetched over REST even when the cache gave it
ResolveGuild_IgnoresCacheHit ==
    /\ pc = "start"
    /\ \/ /\ cache # None
          /\ \E g \in {None} \cup GuildsOfMember :
                /\ BeginFetch("fetch_guild", {"get_guild"})
                /\ cached' = [cached EXCEPT !.guild = IF g = None THEN "miss" ELSE "hit"]
                /\ UNCHANGED guild
       \/ /\ cache = None
          /\ BeginFetch("fetch_guild", {})
          /\ UNCHANGED <<guild, cached>>
    /\ UNCHANGED <<member, roles, channel, permissions, found_channel, cache, last, peer>>

\* variant: on a miss of the guild the roles are requested together with the guild
ResolveGuild_RequestsRolesToo ==
    /\ pc = "start"
    /\ \E g \in (IF cache = None THEN {None} ELSE {None} \cup GuildsOfMember) :
          IF g # None
          THEN /\ guild' = g
               /\ pc' = "owner"
               /\ events' = events \cup {"get_guild"}
               /\ cached' = [cached EXCEPT !.guild = "hit"]
               /\ UNCHANGED <<retry, driver, result, calls, prior, outstanding>>
          ELSE /\ retry' = [NewBackoff EXCEPT !.started = TRUE]
               /\ driver' = "call"
               /\ pc' = "fetch_guild"
               /\ events' = events \cup {"fetch_guild", "fetch_roles"}
               /\ calls' = [guarded |-> 1, final |-> 0]
               /\ prior' = retry
               /\ outstanding' = [outstanding EXCEPT !["fetch_guild"] = @ + 1,
                                                     !["fetch_roles"] = @ + 1]
               /\ UNCHANGED <<guild, cached, result>>
    /\ UNCHANGED <<member, roles, channel, permissions, found_channel, cache, last, peer>>

\* lines 273-278, up to the await of fetch_guild
ResolveGuild ==
    /\ pc = "start"
    /\ \/ /\ cache # None
          /\ \E g \in {None} \cup GuildsOfMember :
                IF g # None
                THEN /\ guild' = g
                     /\ pc' = "owner"
                     /\ events' = events \cup {"get_guild"}
                     /\ cached' = [cached EXCEPT !.guild = "hit"]
                     /\ UNCHANGED <<retry, driver, result, calls, prior, outstanding>>
                ELSE /\ BeginFetch("fetch_guild", {"get_guild"})
                     /\ cached' = [cached EXCEPT !.guild = "miss"]
                     /\ UNCHANGED guild
       \/ /\ cache = None
          /\ BeginFetch("fetch_guild", {})
          /\ UNCHANGED <<guild, cached>>
    /\ UNCHANGED <<member, roles, channel, permissions, found_channel, cache, last, peer>>

\* fetch_guild returns: lines 278-279
FetchGuildReturns ==
    /\ pc = "fetch_guild" /\ driver \in {"call", "final"}
    /\ \E g \in GuildsOfMember, rs \in RoleMappings :
          /\ guild' = g
          /\ roles' = rs
    /\ pc' = "owner"
    /\ driver' = "idle"
    /\ last' = Ok("Guild")
    /\ prior' = None
    /\ outstanding' = Answered(pc)
    /\ UNCHANGED <<member, channel, permissions, found_channel, cache, retry, result, events,
                   cached, calls, peer>>

\* variant: the owner is not short-circuited and the query goes on to the roles
CheckOwner_NoShortCircuit ==
    /\ pc = "owner"
    /\ pc' = "roles"
    /\ UNCHANGED <<member, guild, roles, channel, permissions, found_channel, cache,
                   retry, driver, result, events, cached, calls, last, prior, outstanding,
                   peer>>

\* lines 281-283
CheckOwner ==
    /\ pc = "owner"
    /\ IF guild.owner_id = member.user_id
       THEN End(Return("fetch_permissions", ALL_PERMISSIONS))
       ELSE pc' = "roles" /\ UNCHANGED <<result, driver>>
    /\ UNCHANGED <<member, guild, roles, channel, permissions, found_channel, cache,
                   retry, events, cached, calls, last, prior, outstanding, peer>>

\* lines 285-287, up to the await of fetch_roles
ResolveRoles ==
    /\ pc = "roles"
    /\ \/ /\ ~Falsy(roles)
          /\ pc' = "admin"
          /\ UNCHANGED <<roles, retry, driver, result, events, cached, calls, prior, outstanding>>
       \/ /\ Falsy(roles) /\ cache # None
          /\ \E view \in {None} \cup RoleMappings :
                /\ roles' = view
                /\ cached' = [cached EXCEPT !.roles = IF view = None THEN "miss"
                                                      ELSE IF IsEmpty(view) THEN "empty"
                                                      ELSE "hit"]
                /\ IF ~Falsy(view)
                   THEN /\ pc' = "admin"
                        /\ events' = events \cup {"get_roles_view_for_guild"}
                        /\ UNCHANGED <<retry, driver, result, calls, prior, outstanding>>
                   ELSE BeginFetch("fetch_roles", {"get_roles_view_for_guild"})
       \/ /\ Falsy(roles) /\ cache = None
          /\ roles' = None
          /\ BeginFetch("fetch_roles", {})
          /\ UNCHANGED cached
    /\ UNCHANGED <<member, guild, channel, permissions, found_channel, cache, last, peer>>

\* fetch_roles returns: lines 287-288, roles = {role.id: role for role in raw_roles}
FetchRolesReturns ==
    /\ pc = "fetch_roles" /\ driver \in {"call", "final"}
    /\ \E raw_roles \in RoleMappings : roles' = raw_roles
    /\ pc' = "admin"
    /\ driver' = "idle"
    /\ last' = Ok("Roles")
    /\ prior' = None
    /\ outstanding' = Answered(pc)
    /\ UNCHANGED <<member, guild, channel, permissions, found_channel, cache, retry,
                   result, events, cached, calls, peer>>

\* variant: the role-derived permissions are used without the administrator short-circuit
CheckAdministrator_NoShortCircuit ==
    /\ pc = "admin"
    /\ LET role_permissions == _calculate_role_permissions(roles, member)
       IN  IF role_permissions.type = "raise"
           THEN End(Raise("fetch_permissions", role_permissions.error)) /\ UNCHANGED permissions
           ELSE IF channel = None
           THEN End(Return("fetch_permissions", role_permissions.value)) /\ UNCHANGED permissions
           ELSE /\ permissions' = role_permissions.value
                /\ pc' = "channel"
                /\ UNCHANGED <<result, driver>>
    /\ UNCHANGED <<member, guild, roles, channel, found_channel, cache, retry, events,
                   cached, calls, last, prior, outstanding, peer>>

\* lines 290-295
CheckAdministrator ==
    /\ pc = "admin"
    /\ LET role_permissions == _calculate_role_permissions(roles, member)
       IN  IF role_permissions.type = "raise"
           THEN End(Raise("fetch_permissions", role_permissions.error)) /\ UNCHANGED permissions
           ELSE IF role_permissions.value \cap ADMINISTRATOR # {}
           THEN End(Return("fetch_permissions", ALL_PERMISSIONS)) /\ UNCHANGED permissions
           ELSE IF channel = None
           THEN End(Return("fetch_permissions", role_permissions.value)) /\ UNCHANGED permissions
           ELSE /\ permissions' = role_permissions.value
                /\ pc' = "channel"
                /\ UNCHANGED <<result, driver>>
    /\ UNCHANGED <<member, guild, roles, channel, found_channel, cache, retry, events,
                   cached, calls, last, prior, outstanding, peer>>

\* lines 297-305, up to the await of fetch_channel
ResolveChannel ==
    /\ pc = "channel"
    /\ \/ /\ channel.type = "GuildChannel"
          /\ found_channel' = channel
          /\ pc' = "validate"
          /\ UNCHANGED <<retry, driver, result, events, cached, calls, prior, outstanding>>
       \/ /\ channel.type # "GuildChannel" /\ cache # None
          /\ \E c \in {None} \cup FetchChannels :
                /\ found_channel' = c
                /\ cached' = [cached EXCEPT !.channel = IF c = None THEN "miss" ELSE "hit"]
                /\ IF c # None
                   THEN /\ pc' = "validate"
                        /\ events' = events \cup {"get_guild_channel"}
                        /\ UNCHANGED <<retry, driver, result, calls, prior, outstanding>>
                   ELSE BeginFetch("fetch_channel", {"get_guild_channel"})
       \/ /\ channel.type # "GuildChannel" /\ cache = None
          /\ BeginFetch("fetch_channel", {})
          /\ UNCHANGED <<found_channel, cached>>
    /\ UNCHANGED <<member, guild, roles, channel, permissions, cache, last, peer>>

\* variant: a fetched channel that is no GuildChannel makes the driver send the request again
FetchChannelReturns_RefetchesOther ==
    /\ pc = "fetch_channel" /\ driver \in {"call", "final"}
    /\ \E raw_channel \in FetchChannels \cup {DMChannel} :
          /\ last' = Ok(raw_channel.type)
          /\ IF raw_channel.type = "GuildChannel"
             THEN /\ found_channel' = raw_channel
                  /\ pc' = "validate"
                  /\ driver' = "idle"
                  /\ prior' = None
                  /\ outstanding' = Answered(pc)
                  /\ UNCHANGED <<result, calls>>
             ELSE /\ driver' = "call"
                  /\ calls' = [calls EXCEPT !.guarded = @ + 1]
                  /\ UNCHANGED <<found_channel, pc, result, prior, outstanding>>
    /\ UNCHANGED <<member, guild, roles, channel, permissions, cache, retry, events,
                   cached, peer>>

\* fetch_channel returns: lines 305-307. The assert fails on a channel that is
\* no GuildChannel; with asserts stripped, line 309 fails on its missing guild_id.
FetchChannelReturns ==
    /\ pc = "fetch_channel" /\ driver \in {"call", "final"}
    /\ \E raw_channel \in FetchChannels \cup {DMChannel} :
          /\ last' = Ok(raw_channel.type)
          /\ IF raw_channel.type = "GuildChannel"
             THEN /\ found_channel' = raw_channel
                  /\ pc' = "validate"
                  /\ driver' = "idle"
                  /\ UNCHANGED result
             ELSE /\ \E error \in {"AssertionError", "AttributeError"} :
                         End(Raise("fetch_permissions", error))
                  /\ UNCHANGED found_channel
    /\ prior' = None
    /\ outstanding' = Answered(pc)
    /\ UNCHANGED <<member, guild, roles, channel, permissions, cache, retry, events,
                   cached, calls, peer>>

\* variant: the overwrites are applied without comparing the guilds
ValidateChannel_NoGuildCheck ==
    /\ pc = "validate"
    /\ End(Return("fetch_permissions",
                  _calculate_channel_overwrites(found_channel, member, permissions)))
    /\ UNCHANGED <<member, guild, roles, channel, permissions, found_channel, cache,
                   retry, events, cached, calls, last, prior, outstanding, peer>>

\* lines 309-312
ValidateChannel ==
    /\ pc = "validate"
    /\ IF found_channel.guild_id # guild.id
       THEN End(Raise("fetch_permissions", "ValueError"))
       ELSE End(Return("fetch_permissions",
                       _calculate_channel_overwrites(found_channel, member, permissions)))
    /\ UNCHANGED <<member, guild, roles, channel, permissions, found_channel, cache,
                   retry, events, cached, calls, last, prior, outstanding, peer>>

---------------------------------------------------------------------------
(* fetch_resource: the retry driver around the pending REST request *)

Fetching == pc \in {"fetch_guild", "fetch_roles", "fetch_channel"}

\* the errors a request may raise
Failures ==
    {RateLimited(retry_after) : retry_after \in RetryAfters}
        \cup {Failed("InternalServerError"), Failed("NotFoundError")}

\* variant: an iteration after a failure consumes no retry
NextIteration_Unbounded(r) ==
    /\ retry' = [r EXCEPT !.backoff = IF r.next_backoff = None THEN Exponential
                                      ELSE r.next_backoff,
                          !.next_backoff = None]
    /\ driver' = "sleep"
    /\ outstanding' = Answered(pc)
    /\ UNCHANGED calls

\* the next iteration of `async for _ in retry` after a caught failure, with
\* the backoff object as r: a depleted backoff ends the loop and the else
\* clause sends the final request; otherwise a retry is consumed and the
\* driver sleeps for the set backoff, or for the schedule's next value
NextIteration(r) ==
    IF r.retries = MaxRetries
    THEN /\ retry' = r
         /\ driver' = "final"
         /\ calls' = [calls EXCEPT !.final = @ + 1]
         /\ UNCHANGED outstanding
    ELSE /\ retry' = [r EXCEPT !.retries = @ + 1,
                               !.backoff = IF r.next_backoff = None THEN Exponential
                                           ELSE r.next_backoff,
                               !.next_backoff = None]
         /\ driver' = "sleep"
         /\ outstanding' = Answered(pc)
         /\ UNCHANGED calls

\* variant: a retry_after equal to the ceiling is raised as well
RequestRateLimited_AtCeilingRaises ==
    /\ Fetching /\ driver = "call"
    /\ \E retry_after \in RetryAfters :
          /\ last' = RateLimited(retry_after)
          /\ IF retry_after >= MaxRetryAfter
             THEN /\ End(Raise("fetch_permissions", "RateLimitedError"))
                  /\ prior' = None
                  /\ outstanding' = Answered(pc)
                  /\ UNCHANGED <<retry, calls>>
             ELSE /\ NextIteration([retry EXCEPT !.next_backoff = Seconds(retry_after)])
                  /\ UNCHANGED <<pc, result, prior>>
    /\ UNCHANGED <<member, guild, roles, channel, permissions, found_channel, cache, events,
                   cached, peer>>

\* lines 135-139: the guarded request raises RateLimitedError or RateLimitTooLongError
RequestRateLimited ==
    /\ Fetching /\ driver = "call"
    /\ \E retry_after \in RetryAfters :
          /\ last' = RateLimited(retry_after)
          /\ IF retry_after > MaxRetryAfter
             THEN /\ End(Raise("fetch_permissions", "RateLimitedError"))
                  /\ prior' = None
                  /\ outstanding' = Answered(pc)
                  /\ UNCHANGED <<retry, calls>>
             ELSE /\ NextIteration([retry EXCEPT !.next_backoff = Seconds(retry_after)])
                  /\ UNCHANGED <<pc, result, prior>>
    /\ UNCHANGED <<member, guild, roles, channel, permissions, found_channel, cache, events,
                   cached, peer>>

\* variant: the wait of the latest rate-limited failure is set again for a transient one
RequestServerError_ReusesWait ==
    /\ Fetching /\ driver = "call"
    /\ NextIteration([retry EXCEPT !.next_backoff =
                          IF last.type = "RateLimitedError" THEN Seconds(last.retry_after)
                          ELSE None])
    /\ last' = Failed("InternalServerError")
    /\ UNCHANGED <<member, guild, roles, channel, permissions, found_channel, cache,
                   pc, result, events, cached, prior, peer>>

\* lines 141-142: the guarded request raises InternalServerError
RequestServerError ==
    /\ Fetching /\ driver = "call"
    /\ NextIteration(retry)
    /\ last' = Failed("InternalServerError")
    /\ UNCHANGED <<member, guild, roles, channel, permissions, found_channel, cache,
                   pc, result, events, cached, prior, peer>>

\* variant: any other error of the guarded request is retried like a transient one
RequestOtherError_Retried ==
    /\ Fetching /\ driver = "call"
    /\ NextIteration(retry)
    /\ last' = Failed("NotFoundError")
    /\ UNCHANGED <<member, guild, roles, channel, permissions, found_channel, cache,
                   pc, result, events, cached, prior, peer>>

\* any other error of the guarded request leaves fetch_resource
RequestOtherError ==
    /\ Fetching /\ driver = "call"
    /\ End(Raise("fetch_permissions", "NotFoundError"))
    /\ last' = Failed("NotFoundError")
    /\ prior' = None
    /\ outstanding' = Answered(pc)
    /\ UNCHANGED <<member, guild, roles, channel, permissions, found_channel, cache,
                   retry, events, cached, calls, peer>>

\* the sleep of the backoff ends and the next guarded request is sent
BackoffElapsed ==
    /\ Fetching /\ driver = "sleep"
    /\ driver' = "call"
    /\ retry' = [retry EXCEPT !.backoff = None]
    /\ calls' = [calls EXCEPT !.guarded = @ + 1]
    /\ outstanding' = Sent(pc)
    /\ UNCHANGED <<member, guild, roles, channel, permissions, found_channel, cache,
                   pc, result, events, cached, last, prior, peer>>

\* variant: a failure of the final request is replaced by an error of the driver's own
FinalRequestFails_Synthetic ==
    /\ Fetching /\ driver = "final"
    /\ \E failure \in Failures :
          /\ last' = failure
          /\ End(Raise("fetch_permissions", "TimeoutError"))
    /\ prior' = None
    /\ outstanding' = Answered(pc)
    /\ UNCHANGED <<member, guild, roles, channel, permissions, found_channel, cache,
                   retry, events, cached, calls, peer>>

\* line 145: the final request is outside the try, every error of it leaves fetch_resource
FinalRequestFails ==
    /\ Fetching /\ driver = "final"
    /\ \E failure \in Failures :
          /\ last' = failure
          /\ End(Raise("fetch_permissions", failure.type))
    /\ prior' = None
    /\ outstanding' = Answered(pc)
    /\ UNCHANGED <<member, guild, roles, channel, permissions, found_channel, cache,
                   retry, events, cached, calls, peer>>

NextFetch ==
    \/ ResolveGuild
    \/ FetchGuildReturns
    \/ CheckOwner
    \/ ResolveRoles
    \/ FetchRolesReturns
    \/ CheckAdministrator
    \/ ResolveChannel
    \/ FetchChannelReturns
    \/ ValidateChannel
    \/ RequestRateLimited
    \/ RequestServerError
    \/ RequestOtherError
    \/ BackoffElapsed
    \/ FinalRequestFails

Spec == InitFetch /\ [][NextFetch]_vars

\* the pure calls and the query together
SpecAll == (InitCalc \/ InitFetch) /\ [][NextCalc \/ NextFetch]_vars

---------------------------------------------------------------------------
(* Properties of the pure functions *)

Done(of) == pc = "done" /\ result.of = of
Returned(of) == Done(of) /\ result.type = "return"

IsOwner == guild.owner_id = member.user_id
SameGuild == member.guild_id = guild.id
HasEveryoneRole == roles[member.guild_id] # None

\* the everyone-role's permissions united with those of every held role the mapping has
RoleDerived ==
    roles[member.guild_id].permissions
        \cup UNION {roles[r].permissions : r \in {h \in member.role_ids : roles[h] # None}}

IsAdministrator == HasEveryoneRole /\ 1 \in RoleDerived

AllFlags == UNION {Permissions[i] : i \in 1..Len(Permissions)}

OverwriteOf(chan, key) == chan.permission_overwrites[key]
DenyOf(o) == IF o = None THEN NONE ELSE o.deny
AllowOf(o) == IF o = None THEN NONE ELSE o.allow
HeldRoleOverwrites(chan) == {OverwriteOf(chan, r) : r \in member.role_ids} \ {None}
RoleDeny(chan) == UNION {o.deny : o \in HeldRoleOverwrites(chan)}
RoleAllow(chan) == UNION {o.allow : o \in HeldRoleOverwrites(chan)}

\* C1: a member who is the owner of the guild it belongs to gets ALL from
\* calculate_permissions, whatever the roles mapping and the channel hold.
C1_OwnerGetsAll ==
    Done("calculate_permissions") /\ SameGuild /\ IsOwner
        => result = Return("calculate_permissions", ALL_PERMISSIONS)

\* the owner, with a roles mapping that has no entry at all and a channel
\* that denies every bit to everyone and to the member
C1_Witness ==
    /\ Returned("calculate_permissions") /\ SameGuild /\ IsOwner
    /\ \A k \in Snowflakes : roles[k] = None
    /\ member.role_ids = {}
    /\ channel # None
    /\ OverwriteOf(channel, "G1") = DenyAll /\ OverwriteOf(channel, "U1") = DenyAll
    /\ result.value = AllFlags

\* C2: a non-owner member of the guild whose role-derived permissions hold
\* the administrator flag gets ALL for every channel argument.
C2_AdministratorGetsAll ==
    Done("calculate_permissions") /\ SameGuild /\ ~IsOwner /\ IsAdministrator
        => result = Return("calculate_permissions", ALL_PERMISSIONS)

\* an administrator by a held role, in a channel whose member overwrite denies every bit
C2_Witness ==
    /\ Returned("calculate_permissions") /\ SameGuild /\ ~IsOwner /\ IsAdministrator
    /\ 1 \notin roles["G1"].permissions
    /\ channel # None /\ OverwriteOf(channel, "U1") = DenyAll
    /\ result.value = AllFlags

\* C3: _calculate_channel_overwrites returns the base permissions with the
\* everyone layer, then the united role layer, then the member layer applied,
\* each layer removing its deny and then adding its allow.
C3_LayeredOverwrites ==
    Done("_calculate_channel_overwrites") =>
        /\ result.type = "return"
        /\ result.value =
             ((((((permissions \ DenyOf(OverwriteOf(channel, member.guild_id)))
                     \cup AllowOf(OverwriteOf(channel, member.guild_id)))
                   \ RoleDeny(channel))
                  \cup RoleAllow(channel))
                 \ DenyOf(OverwriteOf(channel, member.user_id)))
                \cup AllowOf(OverwriteOf(channel, member.user_id)))

\* all three layers present, two held role ids with overwrites that disagree,
\* and a result that differs from the base
C3_Witness ==
    /\ Returned("_calculate_channel_overwrites")
    /\ member.role_ids = {"G1", "R1"}
    /\ OverwriteOf(channel, "G1") # None
    /\ OverwriteOf(channel, "R1") # None
    /\ OverwriteOf(channel, "U1") # None
    /\ RoleDeny(channel) \cap RoleAllow(channel) # {}
    /\ OverwriteOf(channel, "R1").deny # OverwriteOf(channel, "G1").deny
    /\ result.value # permissions

\* C4: for a non-owner, non-administrator member and a channel with an
\* overwrite keyed by the member's user id, every bit that overwrite allows
\* is in the result and every bit it denies without allowing is not.
C4_MemberLayerLast ==
    /\ Done("calculate_permissions") /\ SameGuild /\ ~IsOwner
    /\ HasEveryoneRole /\ ~IsAdministrator
    /\ channel # None /\ OverwriteOf(channel, member.user_id) # None
    => /\ result.type = "return"
       /\ OverwriteOf(channel, member.user_id).allow \subseteq result.value
       /\ (OverwriteOf(channel, member.user_id).deny
               \ OverwriteOf(channel, member.user_id).allow) \cap result.value = {}

\* everyone-deny = {SEND}, role-allow = {SEND}, member-deny = {SEND}: SEND is denied
C4_Witness ==
    /\ Returned("calculate_permissions") /\ SameGuild /\ ~IsOwner
    /\ HasEveryoneRole /\ ~IsAdministrator
    /\ "R1" \in member.role_ids
    /\ channel # None
    /\ OverwriteOf(channel, "G1") = DenyLast
    /\ OverwriteOf(channel, "R1") = AllowLast
    /\ OverwriteOf(channel, "U1") = DenyLast
    /\ NumFlags \in roles["G1"].permissions
    /\ NumFlags \notin result.value

\* C5: calculate_permissions raises a validation error for a channel of
\* another guild (member of the guild, neither owner nor administrator).
C5_ChannelOfOtherGuildRaises ==
    /\ Done("calculate_permissions") /\ SameGuild /\ ~IsOwner
    /\ HasEveryoneRole /\ ~IsAdministrator
    /\ channel # None /\ channel.guild_id # guild.id
    => result = Raise("calculate_permissions", "ValueError")

\* C6: calculate_permissions raises a validation error whenever
\* member.guild_id differs from guild.id, before any short-circuit.
C6_MemberOfOtherGuildRaises ==
    Done("calculate_permissions") /\ ~SameGuild
        => result = Raise("calculate_permissions", "ValueError")

\* the member owns the other guild and the roles would make it administrator
C6_Witness ==
    /\ Done("calculate_permissions") /\ ~SameGuild /\ IsOwner /\ IsAdministrator
    /\ result.type = "raise"

\* C7: with an everyone-role entry, _calculate_role_permissions returns the
\* union of the everyone-role's permissions with those of every held role
\* the mapping has; held ids the mapping lacks are skipped.
C7_RolePermissionsUnion ==
    Done("_calculate_role_permissions") /\ HasEveryoneRole =>
        /\ result = Return("_calculate_role_permissions", RoleDerived)
        /\ roles[member.guild_id].permissions \subseteq result.value

\* a held role adds a bit to a non-empty everyone-role, the guild id itself is held
C7_Witness ==
    /\ Returned("_calculate_role_permissions")
    /\ member.role_ids = {"G1", "R1"}
    /\ roles["G1"] # None /\ roles["R1"] # None
    /\ roles["G1"].permissions # {}
    /\ ~(roles["R1"].permissions \subseteq roles["G1"].permissions)
    /\ ~(roles["G1"].permissions \subseteq roles["R1"].permissions)
    /\ result.value = roles["G1"].permissions \cup roles["R1"].permissions

\* a held role id the mapping lacks is skipped without error
C7_WitnessMissing ==
    /\ Returned("_calculate_role_permissions")
    /\ "R1" \in member.role_ids /\ roles["R1"] = None
    /\ result.value = roles["G1"].permissions

\* C9: ALL_PERMISSIONS, the exclusive-or fold of every defined flag, is the
\* union of the flags: it contains each flag, absorbs each flag under
\* combine, and remove(ALL, ALL) is empty (as seen by every finished call).
C9_AllIsUnionOfFlags ==
    pc = "done" =>
        /\ ALL_PERMISSIONS = AllFlags
        /\ \A i \in 1..Len(Permissions) :
              /\ ALL_PERMISSIONS \cup Permissions[i] = ALL_PERMISSIONS
              /\ Permissions[i] \subseteq ALL_PERMISSIONS
        /\ ALL_PERMISSIONS \ ALL_PERMISSIONS = NONE

\* a call returned ALL_PERMISSIONS and it holds every flag bit
C9_Witness ==
    /\ Returned("calculate_permissions") /\ SameGuild /\ IsOwner
    /\ result.value = ALL_PERMISSIONS
    /\ \A b \in Bits : b \in result.value

---------------------------------------------------------------------------
(* Properties of fetch_permissions *)

FetchDone == pc = "done" /\ result.of = "fetch_permissions"
FetchReturned == FetchDone /\ result.type = "return"

\* C8: without an everyone-role entry in the roles mapping, for a non-owner
\* member, _calculate_role_permissions raises KeyError, and so do
\* calculate_permissions and fetch_permissions; fetch_permissions ends there
\* without a further cache lookup, REST request or retry.
C8_MissingEveryoneRoleRaises ==
    [][ /\ pc = "calculate" /\ ~HasEveryoneRole /\ result'.of = "_calculate_role_permissions"
            => result' = Raise("_calculate_role_permissions", "KeyError")
        /\ pc = "calculate" /\ SameGuild /\ ~IsOwner /\ ~HasEveryoneRole
                /\ result'.of = "calculate_permissions"
            => result' = Raise("calculate_permissions", "KeyError")
        /\ pc = "admin" /\ ~IsOwner /\ ~HasEveryoneRole
            => /\ result' = Raise("fetch_permissions", "KeyError")
               /\ pc' = "done"
               /\ driver' = "idle"
               /\ retry' = retry
               /\ events' = events ]_vars

\* the query fetched a roles list without the everyone-role and ended with KeyError
C8_Witness ==
    /\ FetchDone
    /\ result = Raise("fetch_permissions", "KeyError")
    /\ "fetch_roles" \in events
    /\ ~IsOwner
    /\ roles["G1"] = None /\ roles["R1"] # None

\* C10: a value returned by fetch_permissions equals calculate_permissions
\* applied to the member and to the guild, roles and channel the query resolved.
C10_FetchEqualsCalculate ==
    FetchReturned =>
        calculate_permissions(member, guild, roles, found_channel)
            = Return("calculate_permissions", result.value)

\* guild, roles and channel all missed the cache and came from REST, and the
\* channel's overwrites changed the role-derived permissions
C10_Witness ==
    /\ FetchReturned
    /\ events = {"get_guild", "fetch_guild", "get_roles_view_for_guild", "fetch_roles",
                 "get_guild_channel", "fetch_channel"}
    /\ found_channel # None
    /\ result.value # permissions
    /\ result.value # ALL_PERMISSIONS

\* guild, roles and channel all came from the cache
C10_WitnessCacheHits ==
    /\ FetchReturned
    /\ events = {"get_guild", "get_roles_view_for_guild", "get_guild_channel"}
    /\ result.value # permissions

\* no cache: the roles came with the fetched guild, the caller passed the channel object
C10_WitnessNoCache ==
    /\ FetchReturned
    /\ cache = None
    /\ events = {"fetch_guild"}
    /\ found_channel # None
    /\ result.value # permissions

---------------------------------------------------------------------------
(* Which lookups and REST calls a query makes *)

CacheLookups == {"get_guild", "get_roles_view_for_guild", "get_guild_channel"}

\* the parts common to both readings of C11: the guild, the channel, the absent cache
FetchOnlyWhenMissing ==
    /\ cached.guild = "hit" => "fetch_guild" \notin events
    /\ cached.channel = "hit" => "fetch_channel" \notin events
    /\ channel # None =>
          (channel.type = "GuildChannel" =>
              "fetch_channel" \notin events /\ "get_guild_channel" \notin events)
    /\ cache = None =>
          /\ events \cap CacheLookups = {}
          /\ cached = NoLookups
          /\ pc # "start" => "fetch_guild" \in events
          /\ pc = "validate" /\ channel.type # "GuildChannel" => "fetch_channel" \in events

\* C11 as stated: a REST fetch is made only for what was not obtained already:
\* no fetch_guild when the cache gave the guild, no fetch_roles when the cache
\* gave a role view, no fetch_channel when the caller passed a channel object or
\* the cache gave the channel; without a cache no lookup is made and REST is used.
C11_FetchOnlyWhenNotObtained ==
    /\ FetchOnlyWhenMissing
    /\ cached.roles \in {"hit", "empty"} => "fetch_roles" \notin events

\* C11 amended: as above, with fetch_roles ruled out only when the cache gave a
\* role view that is not empty; an empty view counts as a miss.
C11_FetchOnlyWhenNotObtainedNonEmpty ==
    /\ FetchOnlyWhenMissing
    /\ cached.roles = "hit" => "fetch_roles" \notin events
    /\ cached.roles \in {"miss", "empty"} => "fetch_roles" \in events

\* a finished query that got guild and channel from the cache and a role view
\* that was not empty, and made no REST call
C11_Witness ==
    /\ FetchReturned
    /\ cached = [guild |-> "hit", roles |-> "hit", channel |-> "hit"]
    /\ events = CacheLookups

\* the cache gave an empty role view and fetch_roles was called
C11_WitnessEmptyView ==
    /\ cached.roles = "empty"
    /\ "fetch_roles" \in events

---------------------------------------------------------------------------
(* The retry driver fetch_resource *)

\* the latest invocation failed in a way the guarded loop retries
RetryableFailure(outcome) ==
    \/ outcome.type = "InternalServerError"
    \/ outcome.type = "RateLimitedError" /\ outcome.retry_after <= MaxRetryAfter

\* C12: once every guarded attempt has failed retryably and the retry budget
\* (MaxRetries) is used up, the driver invokes the operation exactly once more,
\* outside the guard; that invocation's outcome is the run's outcome as it is:
\* a success continues the query, any failure (rate-limited and transient-server
\* ones too) is raised unchanged, and no further invocation follows.
C12_FinalInvocationVerbatim ==
    [][ /\ driver' = "final" /\ driver # "final" =>
            /\ driver = "call"
            /\ retry.retries = MaxRetries
            /\ calls.guarded = MaxRetries + 1
            /\ RetryableFailure(last')
            /\ calls' = [calls EXCEPT !.final = 1]
        /\ driver = "final" =>
            /\ calls' = calls /\ calls.final = 1
            /\ driver' = "idle"
            /\ retry' = retry
            /\ IF last'.type = "ok"
               THEN pc' # pc
               ELSE pc' = "done" /\ result' = Raise("fetch_permissions", last'.type)
      ]_vars

\* the final request failed with a transient-server error, which ended the query
C12_Witness ==
    /\ FetchDone
    /\ calls = [guarded |-> MaxRetries + 1, final |-> 1]
    /\ last = Failed("InternalServerError")
    /\ result = Raise("fetch_permissions", "InternalServerError")

\* the final request succeeded and the query returned a value
C12_WitnessSuccess ==
    /\ FetchReturned
    /\ calls.final = 1

\* a guarded invocation ends in this step
GuardedOutcome == Fetching /\ driver = "call" /\ driver' # "call"

\* every wait the driver has set on the backoff is within the ceiling
RecordedWaitsWithinCeiling ==
    /\ retry.next_backoff # None => retry.next_backoff.value <= MaxRetryAfter
    /\ retry.backoff # None =>
          (retry.backoff.type = "seconds" => retry.backoff.value <= MaxRetryAfter)

\* C13: a rate-limited failure of a guarded attempt whose retry_after exceeds
\* the ceiling (MaxRetryAfter) is raised at once: no wait is set or slept and no
\* further invocation is made. Hence no wait set by the driver exceeds the
\* ceiling, and a retry_after equal to the ceiling is still retried.
C13_WaitAboveCeilingRaises ==
    /\ []RecordedWaitsWithinCeiling
    /\ [][ GuardedOutcome /\ last'.type = "RateLimitedError" =>
              IF last'.retry_after > MaxRetryAfter
              THEN /\ pc' = "done"
                   /\ result' = Raise("fetch_permissions", "RateLimitedError")
                   /\ driver' = "idle"
                   /\ retry' = retry
                   /\ calls' = calls
              ELSE /\ pc' = pc
                   /\ result' = result
                   /\ driver' \in {"sleep", "final"}
         ]_vars

\* a later guarded attempt was rate-limited above the ceiling, which ended the query
C13_Witness ==
    /\ FetchDone
    /\ last.type = "RateLimitedError"
    /\ last.retry_after > MaxRetryAfter
    /\ calls.guarded > 1 /\ calls.final = 0
    /\ result = Raise("fetch_permissions", "RateLimitedError")

\* the driver sleeps for a retry_after equal to the ceiling
C13_WitnessAtCeiling ==
    /\ driver = "sleep"
    /\ last = RateLimited(MaxRetryAfter)
    /\ retry.backoff = Seconds(MaxRetryAfter)

\* C14: a failure of the operation that is neither rate-limited nor a
\* transient-server error is raised on its first occurrence, at whichever
\* attempt it happens: no further invocation is made and nothing is waited for.
C14_OtherFailureRaisesAtOnce ==
    [][ Fetching /\ driver \in {"call", "final"} /\ last'.type = "NotFoundError" =>
            /\ pc' = "done"
            /\ result' = Raise("fetch_permissions", "NotFoundError")
            /\ driver' = "idle"
            /\ calls' = calls
            /\ retry' = retry
      ]_vars

\* the first attempt of a fetch failed with such an error, which ended the query
C14_Witness ==
    /\ FetchDone
    /\ last = Failed("NotFoundError")
    /\ calls = [guarded |-> 1, final |-> 0]
    /\ retry.retries = 0
    /\ result = Raise("fetch_permissions", "NotFoundError")

\* such an error at a later guarded attempt, after retries
C14_WitnessLaterAttempt ==
    /\ FetchDone
    /\ last = Failed("NotFoundError")
    /\ calls.guarded > 1 /\ calls.final = 0

---------------------------------------------------------------------------
(* How a query ends *)

\* the channel the query resolved belongs to another guild than the resolved guild
ChannelOfOtherGuild ==
    IF found_channel = None THEN FALSE ELSE found_channel.guild_id # guild.id

\* C15: a query for a member who is neither owner nor administrator, whose
\* channel resolves to a channel of another guild than the resolved guild, ends
\* with ValueError and returns no value; every query that ends has either
\* returned one permission set or raised one error, and has no outcome before.
C15_OtherGuildChannelRaises ==
    /\ pc # "done" => result = None
    /\ pc = "done" =>
          /\ result.of = "fetch_permissions"
          /\ result.type \in {"return", "raise"}
          /\ result.type = "return" => result.value \in PermissionSets /\ ~ChannelOfOtherGuild
          /\ ChannelOfOtherGuild => result = Raise("fetch_permissions", "ValueError")

\* the channel was fetched over REST, belongs to another guild, and the query raised
C15_Witness ==
    /\ FetchDone
    /\ ChannelOfOtherGuild
    /\ "fetch_channel" \in events
    /\ ~IsOwner
    /\ permissions \cap ADMINISTRATOR = {}
    /\ result = Raise("fetch_permissions", "ValueError")

\* C16: when fetch_channel succeeds with a channel that is no guild channel (a
\* DM channel), the query raises a type error (AssertionError, or AttributeError
\* where asserts are stripped); fetch_channel is not invoked again and no
\* overwrite is applied.
C16_FetchedDMChannelRaises ==
    [][ pc = "fetch_channel" /\ last' = Ok(DMChannel.type) =>
            /\ pc' = "done"
            /\ result'.type = "raise"
            /\ result'.error \in {"AssertionError", "AttributeError"}
            /\ driver' = "idle"
            /\ calls' = calls
            /\ events' = events
            /\ found_channel' = None
      ]_vars

\* the first fetch_channel request returned a DM channel and the query raised
C16_Witness ==
    /\ FetchDone
    /\ last = Ok(DMChannel.type)
    /\ calls = [guarded |-> 1, final |-> 0]
    /\ found_channel = None
    /\ result = Raise("fetch_permissions", "AssertionError")

\* an invocation of `call` is made in this step of a run already under way
NextInvocation == Fetching /\ calls' # calls

\* the outcome that precedes the invocation made in this step: the one that
\* arrives in this very step when the latest request was still pending
PrecedingOutcome == IF driver = "sleep" THEN last ELSE last'

\* C17: after a rate-limited failure whose retry_after d is within the ceiling,
\* the next invocation of the run, the final unguarded one included, is made
\* only once the driver has slept for d.
C17_NextInvocationAfterWait ==
    [][ /\ NextInvocation
        /\ PrecedingOutcome.type = "RateLimitedError"
        => /\ driver = "sleep"
           /\ retry.backoff = Seconds(PrecedingOutcome.retry_after)
      ]_vars

\* the final request was sent in the step in which a rate-limited failure set a
\* wait, and that wait is still pending on the backoff
C17_FinalSentWithoutWait ==
    /\ driver = "final"
    /\ last.type = "RateLimitedError"
    /\ retry.next_backoff = Seconds(last.retry_after)

\* the guarded invocations alone do wait: the divergence is confined to the final one
C17_GuardedInvocationAfterWait ==
    [][ /\ NextInvocation
        /\ calls'.final = calls.final
        /\ PrecedingOutcome.type = "RateLimitedError"
        => /\ driver = "sleep"
           /\ retry.backoff = Seconds(PrecedingOutcome.retry_after)
      ]_vars

\* while a request is pending no wait is set on the backoff: a wait set by an
\* earlier rate-limited failure was served before the request was sent
NoWaitPendingDuringCall ==
    driver = "call" => retry.next_backoff = None /\ retry.backoff = None

FairSpec == Spec /\ WF_vars(NextFetch)

\* the invocations of a run stay within the retry budget
CallsWithinBudget ==
    /\ calls.guarded <= MaxRetries + 1
    /\ calls.final <= 1
    /\ retry.retries <= MaxRetries
    /\ calls.final = 1 => calls.guarded = MaxRetries + 1

\* C19: every run of the retry driver ends, whatever the outcomes of the
\* invocations: it makes no more guarded invocations than MaxRetries retries
\* allow (the first one and one per retry), at most one unguarded invocation
\* after them, and the first success ends the run at once with no further invocation.
C19_DriverTerminates ==
    /\ Fetching ~> ~Fetching
    /\ []CallsWithinBudget
    /\ [][ Fetching /\ last'.type = "ok" /\ driver # "sleep" =>
              /\ ~Fetching'
              /\ driver' = "idle"
              /\ calls' = calls
              /\ retry' = retry
         ]_vars

\* a run that used every guarded invocation and the final one, and succeeded
C19_Witness ==
    /\ pc = "owner"
    /\ last = Ok("Guild")
    /\ calls = [guarded |-> MaxRetries + 1, final |-> 1]

\* a run ended by the success of its first invocation
C19_WitnessFirstSuccess ==
    /\ pc = "admin"
    /\ last = Ok("Roles")
    /\ calls = [guarded |-> 1, final |-> 0]

---------------------------------------------------------------------------
(* The roles of a fetched guild *)

\* the guild of the query came from fetch_guild
GuildFetched == "fetch_guild" \in events

\* C20: whenever the guild came from fetch_guild, the roles are the ones of the
\* fetched guild: the query makes neither the cache's role-view lookup nor a
\* fetch_roles request, whatever guild fetch_guild returned.
C20_FetchedGuildGivesRoles ==
    GuildFetched =>
        /\ "get_roles_view_for_guild" \notin events
        /\ "fetch_roles" \notin events

\* the fetched guild came with an empty roles mapping and the query went on
\* to the cache's role view and to fetch_roles
C20_EmptyRolesFetchedAgain ==
    /\ GuildFetched
    /\ cached.roles \in {"miss", "empty"}
    /\ {"get_roles_view_for_guild", "fetch_roles"} \subseteq events

\* a fetched guild with a roles mapping that is not empty does give the roles:
\* the divergence is confined to the empty mapping
C20_NonEmptyFetchedRolesKept ==
    [][ pc = "roles" /\ GuildFetched =>
            IF Falsy(roles)
            THEN events' # events
            ELSE events' = events /\ roles' = roles /\ pc' = "admin"
      ]_vars

---------------------------------------------------------------------------
(* The short-circuits of fetch_permissions *)

RoleSteps == {"get_roles_view_for_guild", "fetch_roles"}
ChannelSteps == {"get_guild_channel", "fetch_channel"}

\* the query resolved a guild whose owner is the member
ResolvedOwner == IF guild = None THEN FALSE ELSE IsOwner

\* the query resolved roles that give the member, who is not the owner, the
\* administrator flag
ResolvedAdministrator ==
    IF guild = None \/ Falsy(roles) THEN FALSE
    ELSE ~IsOwner /\ IsAdministrator

\* C21: the short-circuits spare the later steps: for the owner of the resolved
\* guild the query returns ALL with no role lookup, no fetch_roles, no channel
\* lookup and no fetch_channel; for role-derived permissions with ADMINISTRATOR
\* it returns ALL with no channel lookup and no fetch_channel; and without a
\* requested channel no channel lookup or fetch is made.
C21_ShortCircuitsSkipLaterSteps ==
    /\ ResolvedOwner =>
          /\ events \cap (RoleSteps \cup ChannelSteps) = {}
          /\ pc \in {"owner", "done"}
          /\ pc = "done" => result = Return("fetch_permissions", ALL_PERMISSIONS)
    /\ ResolvedAdministrator =>
          /\ events \cap ChannelSteps = {}
          /\ pc \in {"owner", "roles", "admin", "done"}
          /\ pc = "done" => result = Return("fetch_permissions", ALL_PERMISSIONS)
    /\ channel = None => events \cap ChannelSteps = {} /\ found_channel = None

\* the owner of a fetched guild asked for a channel by id and got ALL at once
C21_Witness ==
    /\ FetchReturned
    /\ ResolvedOwner
    /\ channel # None
    /\ cache # None
    /\ events = {"get_guild", "fetch_guild"}
    /\ result.value = ALL_PERMISSIONS

\* an administrator with roles fetched over REST asked for a channel and got ALL
C21_WitnessAdministrator ==
    /\ FetchReturned
    /\ ResolvedAdministrator
    /\ channel # None
    /\ "fetch_roles" \in events

\* a query without a channel returned role-derived permissions other than ALL
C21_WitnessNoChannel ==
    /\ FetchReturned
    /\ channel = None
    /\ result.value # ALL_PERMISSIONS

---------------------------------------------------------------------------
(* The role layer against the everyone layer *)

\* the overwrites keyed by the roles the member holds besides the everyone-role
HeldOtherRoleOverwrites(chan) ==
    {OverwriteOf(chan, r) : r \in member.role_ids \ {member.guild_id}} \ {None}

\* bit b is allowed by the everyone overwrite, denied by an overwrite of a held
\* role other than the everyone-role, allowed by no such overwrite and not
\* mentioned by the member overwrite
EveryoneAllowsRoleDenies(chan, b) ==
    /\ b \in AllowOf(OverwriteOf(chan, member.guild_id))
    /\ \E o \in HeldOtherRoleOverwrites(chan) : b \in o.deny
    /\ \A o \in HeldOtherRoleOverwrites(chan) : b \notin o.allow
    /\ b \notin DenyOf(OverwriteOf(chan, member.user_id))
    /\ b \notin AllowOf(OverwriteOf(chan, member.user_id))

\* C22: a deny of the role layer overrides an allow of the everyone layer: for
\* every member, one whose role_ids hold the guild id included, a bit that the
\* everyone overwrite allows, that an overwrite of a held other role denies,
\* that no overwrite of a held other role allows and that the member overwrite
\* does not mention is absent from the result; the overwrite keyed by the guild
\* id acts in the everyone layer only.
C22_RoleDenyOverridesEveryoneAllow ==
    Returned("_calculate_channel_overwrites") =>
        \A b \in Bits : EveryoneAllowsRoleDenies(channel, b) => b \notin result.value

\* role_ids hold the guild id: the everyone overwrite's allow is added again in
\* the role layer and the denied bit is in the result
C22_EveryoneAllowAppliedTwice ==
    /\ Returned("_calculate_channel_overwrites")
    /\ member.guild_id \in member.role_ids
    /\ \E b \in Bits : EveryoneAllowsRoleDenies(channel, b) /\ b \in result.value

\* for a member whose role_ids do not hold the guild id the deny does override:
\* the divergence is confined to role_ids with the guild id
C22_HoldsWithoutGuildIdRole ==
    Returned("_calculate_channel_overwrites") /\ member.guild_id \notin member.role_ids =>
        \A b \in Bits : EveryoneAllowsRoleDenies(channel, b) => b \notin result.value

---------------------------------------------------------------------------
(* The backoff across the fetches of one query *)

\* the retries consumed are those of the run under way
RetriesOfThisRun ==
    /\ Fetching /\ driver = "call" => retry.retries + 1 = calls.guarded
    /\ Fetching /\ driver = "sleep" => retry.retries = calls.guarded
    /\ Fetching /\ driver = "final" => retry.retries = MaxRetries

\* C23: within one query the backoff is reset at the start of every guarded
\* REST fetch: retries consumed and waits set while the guild was fetched take
\* nothing from the budget of fetch_roles or fetch_channel and leave them no
\* pending wait; each fetch has the full budget of MaxRetries.
C23_RetryResetPerFetch ==
    /\ []RetriesOfThisRun
    /\ [][ ~Fetching /\ Fetching' =>
              /\ retry' = [NewBackoff EXCEPT !.started = TRUE]
              /\ calls' = [guarded |-> 1, final |-> 0]
              /\ driver' = "call"
         ]_vars

\* the guild fetch used up its retries and left a wait pending; fetch_roles
\* started afresh and went through its own MaxRetries retries to the final request
C23_Witness ==
    /\ pc = "fetch_roles"
    /\ "fetch_guild" \in events
    /\ prior.retries = MaxRetries
    /\ prior.next_backoff # None
    /\ driver = "final"
    /\ retry.retries = MaxRetries
    /\ calls = [guarded |-> MaxRetries + 1, final |-> 1]

\* fetch_channel has just started on a reset backoff after fetch_roles used up its retries
C23_WitnessChannel ==
    /\ pc = "fetch_channel"
    /\ "fetch_roles" \in events
    /\ prior.retries = MaxRetries
    /\ retry = [NewBackoff EXCEPT !.started = TRUE]
    /\ calls = [guarded |-> 1, final |-> 0]

---------------------------------------------------------------------------
(* The REST calls of one query: one at a time, in a fixed order *)

\* the requests in flight
Outstanding == {c \in RestCalls : outstanding[c] > 0}

\* a request of this call is sent in the step
Sends(c) == outstanding'[c] > outstanding[c] \/ (pc # c /\ pc' = c)

RequestsOneAtATime ==
    /\ \A c \in RestCalls : outstanding[c] \in {0, 1}
    /\ Cardinality(Outstanding) <= 1
    /\ Outstanding = (IF Fetching /\ driver \in {"call", "final"} THEN {pc} ELSE {})

\* fetch_roles is requested only with the guild resolved, fetch_channel only
\* with the roles resolved and the role-derived permissions computed
RequestsAfterResolution ==
    /\ "fetch_roles" \in events =>
          /\ guild # None
          /\ outstanding["fetch_guild"] = 0
    /\ "fetch_channel" \in events =>
          /\ guild # None
          /\ outstanding["fetch_guild"] = 0 /\ outstanding["fetch_roles"] = 0
          /\ ~Falsy(roles)
          /\ HasEveryoneRole
          /\ permissions = RoleDerived

\* C24: within one query at most one REST call is outstanding at any moment,
\* and the REST calls come in the order fetch_guild, fetch_roles,
\* fetch_channel: no fetch_roles request is sent before the guild is resolved,
\* no fetch_channel request before the role-derived permissions are computed.
C24_OneCallAtATimeInOrder ==
    /\ []RequestsOneAtATime
    /\ []RequestsAfterResolution
    /\ [][ /\ Sends("fetch_guild") => events \cap {"fetch_roles", "fetch_channel"} = {}
           /\ Sends("fetch_roles") => "fetch_channel" \notin events
         ]_vars

\* all three were fetched over REST, and fetch_channel alone is outstanding, on a retry
C24_Witness ==
    /\ pc = "fetch_channel"
    /\ {"fetch_guild", "fetch_roles", "fetch_channel"} \subseteq events
    /\ calls.guarded > 1
    /\ driver = "call"
    /\ Outstanding = {"fetch_channel"}

\* during a backoff sleep no request is outstanding
C24_WitnessSleep ==
    /\ pc = "fetch_roles"
    /\ driver = "sleep"
    /\ Outstanding = {}

---------------------------------------------------------------------------
(* Two fetch_permissions coroutines on one event loop. The variables above
   hold the frame of the coroutine that runs; peer holds the frame of the
   other one, which has not started, stands at an await, or has finished.
   client.cache is the one thing the two share. *)

Others == [A |-> "B", B |-> "A"]

\* the frame of the running coroutine: the arguments and locals of its
\* fetch_permissions call, the Backoff of line 273 among them, and of the
\* fetch_resource call under way
Frame(id) ==
    [id |-> id, member |-> member, guild |-> guild, roles |-> roles, channel |-> channel,
     permissions |-> permissions, found_channel |-> found_channel, retry |-> retry,
     driver |-> driver, pc |-> pc, result |-> result, events |-> events,
     cached |-> cached, calls |-> calls, last |-> last, prior |-> prior,
     outstanding |-> outstanding]

\* variant: one Backoff serves every query, it is no part of a frame
Resume_SharedBackoff(f) ==
    /\ member' = f.member /\ guild' = f.guild /\ roles' = f.roles /\ channel' = f.channel
    /\ permissions' = f.permissions /\ found_channel' = f.found_channel
    /\ retry' = retry
    /\ driver' = f.driver /\ pc' = f.pc /\ result' = f.result /\ events' = f.events
    /\ cached' = f.cached /\ calls' = f.calls /\ last' = f.last /\ prior' = f.prior
    /\ outstanding' = f.outstanding

\* the event loop resumes the coroutine whose frame is f
Resume(f) ==
    /\ member' = f.member /\ guild' = f.guild /\ roles' = f.roles /\ channel' = f.channel
    /\ permissions' = f.permissions /\ found_channel' = f.found_channel
    /\ retry' = f.retry
    /\ driver' = f.driver /\ pc' = f.pc /\ result' = f.result /\ events' = f.events
    /\ cached' = f.cached /\ calls' = f.calls /\ last' = f.last /\ prior' = f.prior
    /\ outstanding' = f.outstanding

\* the running coroutine has not started, awaits a request or a backoff
\* sleep, or has finished: only there the event loop may run the other one
AtAwait == pc \in {"start", "done"} \/ Fetching

SwitchTask ==
    /\ peer # None
    /\ AtAwait
    /\ peer.pc # "done"
    /\ Resume(peer)
    /\ peer' = Frame(Others[peer.id])
    /\ UNCHANGED cache

\* the queries of the two coroutines, and what the cache and REST give them
ConcurrentMembers == {m \in Members : m.role_ids = {"R1"}}
EmptyRoles == MappingOf(None, None, None)
PlainRoles == MappingOf(Role("G1", NONE), Role("R1", {NumFlags}), None)
ChannelOfGuild(g) == GuildChannel(g, MappingOf(DenyLast, None, None))

SampleWorld ==
    /\ roles \in {None, EmptyRoles, PlainRoles}
    /\ found_channel \in {None, ChannelOfGuild("G1"), ChannelOfGuild("G2")}
    /\ last # RateLimited(MaxRetryAfter)
    /\ IF peer.id = "A" /\ guild # None THEN guild.owner_id = member.user_id ELSE TRUE

\* coroutine A asks for a channel by id; coroutine B asks for the guild scope
\* and is the owner of the guild it resolves
InitConcurrent ==
    /\ InitQuery
    /\ member \in ConcurrentMembers
    /\ channel = Snowflake("C1")
    /\ cache = Cache
    /\ peer \in {[id |-> "B", member |-> m, guild |-> None, roles |-> None, channel |-> c,
                  permissions |-> NONE, found_channel |-> None, retry |-> NewBackoff,
                  driver |-> "idle", pc |-> "start", result |-> None, events |-> {},
                  cached |-> NoLookups, calls |-> NoCalls, last |-> None, prior |-> None,
                  outstanding |-> NoneOutstanding] :
                     m \in ConcurrentMembers, c \in {None}}

NextConcurrent ==
    \/ ResolveGuild /\ SampleWorld'
    \/ FetchGuildReturns /\ SampleWorld'
    \/ CheckOwner /\ SampleWorld'
    \/ ResolveRoles /\ SampleWorld'
    \/ FetchRolesReturns /\ SampleWorld'
    \/ CheckAdministrator /\ SampleWorld'
    \/ ResolveChannel /\ SampleWorld'
    \/ FetchChannelReturns /\ SampleWorld'
    \/ ValidateChannel /\ SampleWorld'
    \/ RequestRateLimited /\ SampleWorld'
    \/ RequestServerError /\ SampleWorld'
    \/ RequestOtherError /\ SampleWorld'
    \/ BackoffElapsed /\ SampleWorld'
    \/ FinalRequestFails /\ SampleWorld'
    \/ SwitchTask

SpecConcurrent == InitConcurrent /\ [][NextConcurrent]_vars

\* a frame holds the retry state of its own run and an outcome computed from
\* what its own query resolved
FrameConsistent(f) ==
    /\ f.pc \in RestCalls =>
          /\ f.driver = "call" => f.retry.retries + 1 = f.calls.guarded
          /\ f.driver = "sleep" =>
                /\ f.retry.retries = f.calls.guarded
                /\ f.last.type = "RateLimitedError" =>
                      f.retry.backoff = Seconds(f.last.retry_after)
                /\ f.last.type = "InternalServerError" => f.retry.backoff = Exponential
          /\ f.driver = "final" => f.retry.retries = MaxRetries
    /\ f.calls.guarded <= MaxRetries + 1 /\ f.calls.final <= 1
    /\ f.pc # "done" => f.result = None
    /\ f.pc = "done" /\ f.result.type = "return" =>
          calculate_permissions(f.member, f.guild, f.roles, f.found_channel)
              = Return("calculate_permissions", f.result.value)

\* C25: concurrent queries are independent under every interleaving: each owns
\* its retry state, so the failures and waits of one never consume the other's
\* retries nor change its wait: a step of the running query leaves the frame of
\* the suspended one as it is, a query is resumed with the frame it was
\* suspended with, and each query's outcome is computed from what that query
\* resolved, as when it runs alone.
C25_ConcurrentQueriesIndependent ==
    /\ [](FrameConsistent(Frame("running")) /\ FrameConsistent(peer))
    /\ [][ IF peer'.id = peer.id
           THEN peer' = peer
           ELSE /\ Frame("resumed")' = [peer EXCEPT !.id = "resumed"]
                /\ peer' = Frame(Others[peer.id])
         ]_vars

\* both queries are in the middle of retries: A sleeps after a transient-server
\* failure of fetch_channel while B has used up its retries on fetch_guild and
\* sleeps for a rate limit
C25_Witness ==
    /\ peer.id = "B"
    /\ pc = "fetch_channel" /\ driver = "sleep"
    /\ last = Failed("InternalServerError")
    /\ retry.retries = 1
    /\ peer.pc = "fetch_guild" /\ peer.driver = "sleep"
    /\ peer.retry.retries = MaxRetries
    /\ peer.last.type = "RateLimitedError"

\* both queries have finished, A after B, each with a returned value
C25_WitnessBothDone ==
    /\ peer.id = "B"
    /\ pc = "done" /\ result.type = "return"
    /\ peer.pc = "done" /\ peer.result.type = "return"
    /\ calls.guarded > 1 /\ peer.calls.guarded > 1

====
